---------------------------- MODULE Spec2Model ----------------------------
(***************************************************************************)
(* A model of make_shaders.py, the generator of compositor/gles/shaders.h  *)
(* and shaders.cc.                                                         *)
(*                                                                         *)
(* Python strings that the program inspects (the text of a stage file, a   *)
(* source line, a slot name) are sequences of one-character strings.       *)
(* Python strings that the program only emits are TLA+ strings, and a      *)
(* multi-line string is the sequence of its lines: '\n'.join(out) is out   *)
(* itself, and the empty string is the one empty line <<"">>.              *)
(***************************************************************************)
EXTENDS Integers, Sequences, FiniteSets, TLC

(***************************************************************************)
(* Characters and Python's str primitives.                                 *)
(***************************************************************************)
LowerCase ==
    <<"a","b","c","d","e","f","g","h","i","j","k","l","m",
      "n","o","p","q","r","s","t","u","v","w","x","y","z">>

UpperCase ==
    <<"A","B","C","D","E","F","G","H","I","J","K","L","M",
      "N","O","P","Q","R","S","T","U","V","W","X","Y","Z">>

Digits == <<"0","1","2","3","4","5","6","7","8","9">>

IndexIn(c, s) == IF \E i \in DOMAIN s : s[i] = c
                 THEN CHOOSE i \in DOMAIN s : s[i] = c
                 ELSE 0

\* ord(c): the code point of a character of the model's alphabet.
Ord(c) ==
    IF IndexIn(c, LowerCase) > 0 THEN 96 + IndexIn(c, LowerCase)
    ELSE IF IndexIn(c, UpperCase) > 0 THEN 64 + IndexIn(c, UpperCase)
    ELSE IF IndexIn(c, Digits) > 0 THEN 47 + IndexIn(c, Digits)
    ELSE CASE c = "\t" -> 9
           [] c = "\n" -> 10
           [] c = " "  -> 32
           [] c = "("  -> 40
           [] c = ")"  -> 41
           [] c = "/"  -> 47
           [] c = ";"  -> 59
           [] c = "["  -> 91
           [] c = "]"  -> 93
           [] c = "_"  -> 95
           [] c = "{"  -> 123
           [] c = "}"  -> 125

\* a < b for two Python strings (comparison by code point, then by length).
RECURSIVE StrLess(_, _)
StrLess(a, b) ==
    IF b = <<>> THEN FALSE
    ELSE IF a = <<>> THEN TRUE
    ELSE IF a[1] = b[1] THEN StrLess(Tail(a), Tail(b))
    ELSE Ord(a[1]) < Ord(b[1])

\* The text a character sequence spells, as an emitted string.
RECURSIVE Str(_)
Str(cs) == IF cs = <<>> THEN "" ELSE cs[1] \o Str(Tail(cs))

\* The regular expression class \s (the model's alphabet has no \v).
IsSpace(c) == c \in {" ", "\t", "\n", "\r", "\f"}

\* line.rstrip('\n')
RECURSIVE RStripNewline(_)
RStripNewline(line) ==
    IF line # <<>> /\ line[Len(line)] = "\n"
    THEN RStripNewline(SubSeq(line, 1, Len(line) - 1))
    ELSE line

\* s.split(sep) for a one-character separator.
RECURSIVE Split(_, _)
Split(s, sep) ==
    IF \E i \in DOMAIN s : s[i] = sep
    THEN LET i == CHOOSE k \in DOMAIN s :
                     s[k] = sep /\ \A j \in 1..(k - 1) : s[j] # sep
         IN  <<SubSeq(s, 1, i - 1)>> \o Split(SubSeq(s, i + 1, Len(s)), sep)
    ELSE <<s>>

\* s.title(): a cased character is upper-cased after an uncased one (or at
\* the start) and lower-cased after a cased one.
IsCased(c) == IndexIn(c, LowerCase) > 0 \/ IndexIn(c, UpperCase) > 0

ToUpper(c) == IF IndexIn(c, LowerCase) > 0
              THEN UpperCase[IndexIn(c, LowerCase)] ELSE c

ToLower(c) == IF IndexIn(c, UpperCase) > 0
              THEN LowerCase[IndexIn(c, UpperCase)] ELSE c

Title(s) ==
    [i \in DOMAIN s |->
        IF i > 1 /\ IsCased(s[i - 1]) THEN ToLower(s[i]) ELSE ToUpper(s[i])]

RECURSIVE Concat(_)
Concat(ss) == IF ss = <<>> THEN <<>> ELSE ss[1] \o Concat(Tail(ss))

\* def CamelCase(identifier)
CamelCase(identifier) ==
    LET parts == Split(identifier, "_")
    IN  Concat([i \in DOMAIN parts |-> Title(parts[i])])

\* sorted(d) for a dict d keyed by strings: the keys in increasing order.
RECURSIVE SortedKeys(_)
SortedKeys(keys) ==
    IF keys = {} THEN <<>>
    ELSE LET m == CHOOSE x \in keys : \A y \in keys : x = y \/ StrLess(x, y)
         IN  <<m>> \o SortedKeys(keys \ {m})

(***************************************************************************)
(* class Shader                                                            *)
(***************************************************************************)
\* for line in file(filename): the lines of a text, each with its
\* terminating newline, the last one without when the text does not end
\* in a newline.
RECURSIVE FileLines(_)
FileLines(text) ==
    IF text = <<>> THEN <<>>
    ELSE IF \E i \in DOMAIN text : text[i] = "\n"
    THEN LET i == CHOOSE k \in DOMAIN text :
                     text[k] = "\n" /\ \A j \in 1..(k - 1) : text[j] # "\n"
         IN  <<SubSeq(text, 1, i)>> \o FileLines(SubSeq(text, i + 1, Len(text)))
    ELSE <<text>>

\* The maximal runs of non-space characters of s, in order.
RECURSIVE Tokens(_)
Tokens(s) ==
    IF s = <<>> THEN <<>>
    ELSE IF IsSpace(s[1]) THEN Tokens(Tail(s))
    ELSE LET n == IF \E i \in DOMAIN s : IsSpace(s[i])
                  THEN (CHOOSE i \in DOMAIN s :
                           IsSpace(s[i]) /\ \A j \in 1..(i - 1) : ~IsSpace(s[j])) - 1
                  ELSE Len(s)
         IN  <<SubSeq(s, 1, n)>> \o Tokens(SubSeq(s, n + 1, Len(s)))

\* s with its leading white space removed.
RECURSIVE LStrip(_)
LStrip(s) == IF s # <<>> /\ IsSpace(s[1]) THEN LStrip(Tail(s)) ELSE s

IsPrefix(p, s) == Len(p) <= Len(s) /\ SubSeq(s, 1, Len(p)) = p

kwUniform == <<"u","n","i","f","o","r","m">>

kwAttribute == <<"a","t","t","r","i","b","u","t","e">>

\* What (\S+)\s*; captures when (?:\S+\s+)* has consumed the tokens before
\* toks[k]: the whole token when the next token starts with ';', otherwise
\* the longest proper prefix of the token that a ';' follows; <<>> when the
\* match fails there.
Group2At(toks, k) ==
    LET t == toks[k]
        inner == {e \in 1..(Len(t) - 1) : t[e + 1] = ";"}
    IN  IF k < Len(toks) /\ toks[k + 1][1] = ";" THEN t
        ELSE IF inner # {} THEN SubSeq(t, 1, CHOOSE e \in inner : \A f \in inner : f <= e)
        ELSE <<>>

\* slot_re.match(line) for
\*   ^\s*(uniform|attribute)\s+(?:\S+\s+)*(\S+)\s*;
\* as the backtracking matcher decides it: the greedy (?:\S+\s+)* keeps as
\* many tokens as still leave a match.  <<>> is None, and a match is the
\* one-element sequence of its two groups.
SlotMatch(line) ==
    LET s  == LStrip(line)
        kw == IF IsPrefix(kwUniform, s) THEN kwUniform
              ELSE IF IsPrefix(kwAttribute, s) THEN kwAttribute
              ELSE <<>>
        rest == SubSeq(s, Len(kw) + 1, Len(s))
        toks == Tokens(rest)
        ok   == {k \in DOMAIN toks : Group2At(toks, k) # <<>>}
    IN  IF kw = <<>> \/ rest = <<>> \/ ~IsSpace(rest[1]) \/ ok = {}
        THEN <<>>
        ELSE <<[group1 |-> kw,
                group2 |-> Group2At(toks, CHOOSE k \in ok : \A j \in ok : j <= k)]>>

\* Shader._Parse: the fields it leaves in the object.
RECURSIVE ParseSlots(_)
ParseSlots(lines) ==
    IF lines = <<>> THEN <<>>
    ELSE LET match == SlotMatch(RStripNewline(lines[1]))
         IN  (IF match # <<>>
              THEN <<[type |-> Str(match[1].group1), name |-> match[1].group2]>>
              ELSE <<>>) \o ParseSlots(Tail(lines))

\* The lines are kept with their newline.
ParseSourceUnstripped(text) == FileLines(text)

\* self.source after Shader._Parse
ParseSource(text) ==
    LET lines == FileLines(text)
    IN  [i \in DOMAIN lines |-> RStripNewline(lines[i])]

\* Shader(name, filename), for a file that holds text.
Shader(name, text) ==
    [name |-> name, source |-> ParseSource(text), slots |-> ParseSlots(FileLines(text))]

\* Shader.SourceName
SourceName(shader) == "k" \o shader.name \o "Src"

\* Shader.QuotedSource: out[-1] += ';' falls on the declaration line when
\* the source has no line.
QuotedSource(shader) ==
    LET out == <<"static const char* " \o SourceName(shader) \o " =">> \o
               [i \in DOMAIN shader.source |->
                   "    \"" \o Str(shader.source[i]) \o "\\n\""]
    IN  [i \in DOMAIN out |-> IF i = Len(out) THEN out[i] \o ";" ELSE out[i]]

(***************************************************************************)
(* Emitted strings: a string is the sequence of its lines.                 *)
(***************************************************************************)
\* '\n'.join(out)
JoinLines(out) == IF out = <<>> THEN <<"">> ELSE out

\* a + b
Cat(a, b) ==
    SubSeq(a, 1, Len(a) - 1) \o <<a[Len(a)] \o b[1]>> \o Tail(b)

\* '\n\n'.join(strings)
RECURSIVE JoinBlank(_)
JoinBlank(strings) ==
    IF strings = <<>> THEN <<"">>
    ELSE IF Len(strings) = 1 THEN strings[1]
    ELSE Cat(Cat(strings[1], <<"", "", "">>), JoinBlank(Tail(strings)))

(***************************************************************************)
(* class Program                                                           *)
(***************************************************************************)
EmptyDict == [n \in {} |-> ""]

\* A duplicate of the same type is absorbed; only a change of type aborts.
RECURSIVE MakeSlotsAbsorbing(_, _)
MakeSlotsAbsorbing(all_slots, slots) ==
    IF all_slots = <<>> THEN [raised |-> "", slots |-> slots]
    ELSE IF all_slots[1].name \in DOMAIN slots
            /\ slots[all_slots[1].name] # all_slots[1].type
    THEN [raised |-> "AssertionError", slots |-> EmptyDict]
    ELSE MakeSlotsAbsorbing(Tail(all_slots),
             (all_slots[1].name :> all_slots[1].type) @@ slots)

\* No assertion: a later slot overwrites an earlier one of the same name.
RECURSIVE MakeSlotsUnchecked(_, _)
MakeSlotsUnchecked(all_slots, slots) ==
    IF all_slots = <<>> THEN [raised |-> "", slots |-> slots]
    ELSE MakeSlotsUnchecked(Tail(all_slots),
             (all_slots[1].name :> all_slots[1].type) @@ slots)

\* The loop of Program._MakeSlots over all_slots, slots being self.slots
\* so far; the assertion that fails ends it.
RECURSIVE MakeSlotsLoop(_, _)
MakeSlotsLoop(all_slots, slots) ==
    IF all_slots = <<>> THEN [raised |-> "", slots |-> slots]
    ELSE IF all_slots[1].name \in DOMAIN slots
    THEN [raised |-> "AssertionError", slots |-> EmptyDict]
    ELSE MakeSlotsLoop(Tail(all_slots),
             (all_slots[1].name :> all_slots[1].type) @@ slots)

\* Program._MakeSlots
MakeSlots(vertex, fragment) ==
    MakeSlotsLoop(vertex.slots \o fragment.slots, EmptyDict)

\* sorted(self.slots) with the comparison reversed.
SortedDescending(slots) ==
    LET up == SortedKeys(DOMAIN slots)
    IN  [i \in DOMAIN up |-> up[Len(up) + 1 - i]]

\* sorted(self.slots)
Sorted(slots) == SortedKeys(DOMAIN slots)

Accessor(type) == IF type = "uniform" THEN "Uniform" ELSE "Attrib"

\* Program.FetchSlots
FetchSlots(slots) ==
    LET order == Sorted(slots)
    IN  JoinLines([i \in 1..(2 * Len(order)) |->
            LET slot == order[(i + 1) \div 2]
            IN  IF i % 2 = 1
                THEN "  " \o Str(slot) \o "_ = glGet" \o Accessor(slots[slot])
                     \o "Location(program(), \"" \o Str(slot) \o "\");"
                ELSE "  CHECK(" \o Str(slot) \o "_ >= 0);"])

\* Program.Slots
Slots(slots) ==
    LET order == Sorted(slots)
    IN  JoinLines([i \in DOMAIN order |-> "  GLint " \o Str(order[i]) \o "_;"])

\* Every slot, whatever its type.
AllSlotsAsAttribs(slots) == Sorted(slots)

\* The list attribs of Program.UsedVertexAttribs.
UsedAttribs(slots) ==
    LET order == Sorted(slots)
        F[i \in 0..Len(order)] ==
            IF i = 0 THEN <<>>
            ELSE IF slots[order[i]] = "attribute" THEN Append(F[i - 1], order[i])
            ELSE F[i - 1]
    IN  F[Len(order)]

\* Program.UsedVertexAttribs
UsedVertexAttribs(slots) ==
    LET attribs == UsedAttribs(slots)
        n      == Len(attribs)
        prefix == "  SetUsedVertexAttribs("
        pad    == "                       "
        term(i) == "(1 << " \o Str(attribs[i]) \o "_)"
    IN  IF n = 1 THEN <<prefix \o "1 << " \o Str(attribs[1]) \o "_" \o ");">>
        ELSE IF n = 0 THEN <<prefix \o ");">>
        ELSE [i \in 1..n |->
                (IF i = 1 THEN prefix ELSE pad) \o term(i)
                \o (IF i = n THEN ");" ELSE " |")]

\* Program.Accessors
Accessors(slots) ==
    LET order == Sorted(slots)
    IN  JoinLines([i \in DOMAIN order |->
            "  GLint " \o Str(CamelCase(order[i])) \o "Location() const { return "
            \o Str(order[i]) \o "_; }"])

\* Program.__init__: the object, or the exception that leaves none.
Program(name, vertex, fragment) ==
    LET made == MakeSlots(vertex, fragment)
    IN  IF made.raised # ""
        THEN [raised |-> made.raised]
        ELSE [raised   |-> "",
              name     |-> name,
              vertex   |-> vertex.name,
              fragment |-> fragment.name,
              slots    |-> made.slots,
              subs     |-> [Accessors         |-> Accessors(made.slots),
                            FetchSlots        |-> FetchSlots(made.slots),
                            FragmentSource    |-> SourceName(fragment),
                            ShaderName        |-> name,
                            Slots             |-> Slots(made.slots),
                            UsedVertexAttribs |-> UsedVertexAttribs(made.slots),
                            VertexSource      |-> SourceName(vertex)]]

\* Program.Header: shader_template with self.subs substituted.
Header(program) ==
    LET subs == program.subs
    IN  <<"class " \o subs.ShaderName \o " : public Shader {",
          " public:",
          "  " \o subs.ShaderName \o "();",
          "">>
        \o subs.Accessors
        \o <<"", " private:">>
        \o subs.Slots
        \o <<"",
             "  DISALLOW_COPY_AND_ASSIGN(" \o subs.ShaderName \o ");",
             "};",
             "">>

\* Program.Implementation: ctor_template with self.subs substituted.
Implementation(program) ==
    LET subs == program.subs
    IN  <<subs.ShaderName \o "::" \o subs.ShaderName \o "()",
          "    : Shader(" \o subs.VertexSource \o ", " \o subs.FragmentSource \o ") {">>
        \o subs.FetchSlots
        \o subs.UsedVertexAttribs
        \o <<"}", "">>

(***************************************************************************)
(* The constructor that ctor_template emits, run against a GL              *)
(* implementation that answers the location lookups with loc.              *)
(***************************************************************************)
RECURSIVE SumOfBits(_)
SumOfBits(bits) ==
    IF bits = {} THEN 0
    ELSE LET b == CHOOSE x \in bits : TRUE
         IN  2 ^ b + SumOfBits(bits \ {b})

\* The argument of the emitted SetUsedVertexAttribs call: the bitwise or of
\* 1 << slot_ over attribs, each slot_ holding what glGetAttribLocation
\* returned; the call has no argument when attribs is empty.
MaskArgument(slots, loc) ==
    LET attribs == UsedAttribs(slots)
    IN  IF attribs = <<>> THEN <<>>
        ELSE <<SumOfBits({loc[attribs[i]] : i \in DOMAIN attribs})>>

\* The emitted constructor body: every location is fetched and CHECKed,
\* then the mask is registered.
RunConstructor(slots, loc) ==
    IF \E n \in DOMAIN slots : loc[n] < 0
    THEN [state |-> "check_failed", loc |-> loc, maskArg |-> <<>>]
    ELSE [state |-> "constructed", loc |-> loc, maskArg |-> MaskArgument(slots, loc)]

(***************************************************************************)
(* The tables of the module and main().                                    *)
(***************************************************************************)
shaders ==
    [TexColorVertex       |-> "compositor/gles/tex_color.glslv",
     TexColorFragment     |-> "compositor/gles/tex_color.glslf",
     TexShadeVertex       |-> "compositor/gles/tex_shade.glslv",
     TexShadeFragment     |-> "compositor/gles/tex_shade.glslf",
     NoAlphaColorFragment |-> "compositor/gles/noalpha_color.glslf",
     NoAlphaShadeFragment |-> "compositor/gles/noalpha_shade.glslf"]

programs ==
    <<<<"TexColorShader", "TexColorVertex", "TexColorFragment">>,
      <<"TexShadeShader", "TexShadeVertex", "TexShadeFragment">>,
      <<"NoAlphaColorShader", "TexColorVertex", "NoAlphaColorFragment">>,
      <<"NoAlphaShadeShader", "TexShadeVertex", "NoAlphaShadeFragment">>>>

\* The orders in which a dict with these keys may be iterated: the language
\* leaves the order of a dict open.
IterationOrders(keys) ==
    {order \in [1..Cardinality(keys) -> keys] :
        \A i, j \in DOMAIN order : i # j => order[i] # order[j]}

ShaderOrders == IterationOrders(DOMAIN shaders)

\* header with subs substituted.
HeaderDocument(subs) ==
    <<"// Auto generated DO NOT edit.",
      "",
      "#ifndef WINDOW_MANAGER_GLES_SHADERS_H_",
      "#define WINDOW_MANAGER_GLES_SHADERS_H_",
      "",
      "#include <GLES2/gl2.h>",
      "",
      "#include \"base/basictypes.h\"",
      "#include \"window_manager/compositor/gles/shader_base.h\"",
      "",
      "namespace window_manager {",
      "">>
    \o subs.Headers
    \o <<"",
         "}  // namespace window_manager",
         "",
         "#endif  // WINDOW_MANAGER_GLES_SHADERS_H_",
         "">>

\* implementation with subs substituted.
ImplementationDocument(subs) ==
    <<"// Auto generated DO NOT edit.",
      "",
      "#include \"window_manager/compositor/gles/shaders.h\"",
      "",
      "#include <GLES2/gl2.h>",
      "",
      "#include \"base/logging.h\"",
      "",
      "#include \"window_manager/compositor/gles/shader_base.h\"",
      "",
      "namespace window_manager {",
      "">>
    \o subs.Sources
    \o <<"">>
    \o subs.Implementations
    \o <<"",
         "}  // namespace window_manager",
         "">>

\* subs['Headers']
MainHeaders(program_objs) ==
    JoinBlank([i \in DOMAIN program_objs |-> Header(program_objs[i])])

\* subs['Implementations']
MainImplementations(program_objs) ==
    JoinBlank([i \in DOMAIN program_objs |-> Implementation(program_objs[i])])

\* One constant for each program's vertex stage and for each program's
\* fragment stage, program by program.
SourcesPerProgram(shader_objs, program_objs, order) ==
    JoinBlank([i \in 1..(2 * Len(program_objs)) |->
        LET prog == program_objs[(i + 1) \div 2]
        IN  QuotedSource(shader_objs[IF i % 2 = 1 THEN prog.vertex ELSE prog.fragment])])

\* subs['Sources'], shader_objects.itervalues() yielding the shaders in the
\* given order.
MainSources(shader_objs, program_objs, order) ==
    JoinBlank([i \in DOMAIN order |-> QuotedSource(shader_objs[order[i]])])

(***************************************************************************)
(* State.                                                                  *)
(*                                                                         *)
(* An optional value is a sequence: <<>> for none, <<v>> for v.            *)
(***************************************************************************)
VARIABLES
    files,                \* file name -> <<>> (unreadable) or <<its text>>
    pc,                   \* where main() is
    shader_objects,       \* main's dict of Shader objects
    program_objects,      \* main's list of Program objects
    subs,                 \* main's subs, once filled
    header_file,          \* compositor/gles/shaders.h
    implementation_file,  \* compositor/gles/shaders.cc
    observed,             \* the two documents an earlier run left
    text,                 \* a stage text given to Shader
    shader,               \* the Shader object made from text
    vertex,               \* the vertex Shader given to Program
    fragment,             \* the fragment Shader given to Program
    program,              \* what Program(name, vertex, fragment) gave
    ctor                  \* the emitted constructor, once it ran

mainVars == <<files, pc, shader_objects, program_objects, subs,
              header_file, implementation_file, observed>>

shaderVars == <<text, shader>>

programVars == <<vertex, fragment, program, ctor>>

vars == <<mainVars, shaderVars, programVars>>

(***************************************************************************)
(* Bounds and inputs.                                                      *)
(***************************************************************************)
MaxLines == 2

MaxSlots == 2

MaxLoc == 2

SeqsUpTo(S, n) == UNION {[1..k -> S] : k \in 0..n}

Chars_mvp == <<"m","v","p">>

Chars_pos == <<"p","o","s">>

Chars_a_b == <<"a","_","b">>

Chars_mat4 == <<"m","a","t","4">>

Chars_vec4 == <<"v","e","c","4">>

Chars_color == <<"c","o","l","o","r">>

Chars_main == <<"v","o","i","d"," ","m","a","i","n","(",")"," ","{","}">>

\* Lines a stage file may hold, without their newline.
SampleLines ==
    { <<>>,
      kwUniform \o <<" ">> \o Chars_mat4 \o <<" ">> \o Chars_mvp \o <<";">>,
      kwAttribute \o <<" ">> \o Chars_vec4 \o <<" ">> \o Chars_pos \o <<";">>,
      <<" ", "\t">> \o kwUniform \o <<" ", " ">> \o Chars_vec4 \o <<"\t">>
          \o Chars_color \o <<" ", ";">>,
      Chars_main,
      kwUniform \o <<" ">> \o Chars_vec4 \o <<" ", "a", ";", " ">>
          \o kwAttribute \o <<" ">> \o Chars_vec4 \o <<" ", "b", ";">>,
      kwUniform \o <<" ">> \o Chars_vec4 \o <<" ", "a", ";", " ", "/", "/", " ", "c", ";">>,
      kwUniform \o <<"x", " ">> \o Chars_vec4 \o <<" ", "a", ";">>,
      kwUniform \o <<" ">> \o Chars_vec4 \o <<" ", "a", "[", "4", "]", ";">>,
      kwUniform \o <<" ">> \o Chars_vec4 \o <<" ", "a">> }

\* The text whose lines are ls, newline-separated, with or without a
\* newline after the last one.
RECURSIVE TextOf(_, _)
TextOf(ls, finalNewline) ==
    IF ls = <<>> THEN <<>>
    ELSE IF Len(ls) = 1 THEN ls[1] \o (IF finalNewline THEN <<"\n">> ELSE <<>>)
    ELSE ls[1] \o <<"\n">> \o TextOf(Tail(ls), finalNewline)

StageTexts ==
    {TextOf(ls, nl) : ls \in SeqsUpTo(SampleLines, MaxLines), nl \in BOOLEAN}

SlotNames == {Chars_mvp, Chars_pos, Chars_a_b}

SlotTypes == {kwUniform, kwAttribute}

\* The stage text that declares the given <<type, name>> pairs, one a line.
DeclarationText(decls) ==
    TextOf([i \in DOMAIN decls |->
               decls[i][1] \o <<" ">> \o Chars_vec4 \o <<" ">> \o decls[i][2] \o <<";">>],
           TRUE)

DeclarationLists == SeqsUpTo(SlotTypes \X SlotNames, MaxSlots)

\* The texts main() may find in a vertex and in a fragment stage file.
VertexTexts ==
    { <<>>,
      DeclarationText(<<<<kwUniform, Chars_mvp>>, <<kwAttribute, Chars_pos>>>>) }

FragmentTexts ==
    { DeclarationText(<<<<kwUniform, Chars_mvp>>>>),
      TextOf(<<kwUniform \o <<" ">> \o Chars_vec4 \o <<" ">> \o Chars_color \o <<";">>,
               Chars_main>>, FALSE) }

VertexFiles == {shaders.TexColorVertex, shaders.TexShadeVertex}

FileNames == {shaders[n] : n \in DOMAIN shaders}

FileSystems ==
    {fs \in [FileNames -> {<<>>} \cup {<<t>> : t \in VertexTexts \cup FragmentTexts}] :
        \A f \in FileNames :
            fs[f] # <<>> =>
                fs[f][1] \in (IF f \in VertexFiles THEN VertexTexts ELSE FragmentTexts)}

NoFile == [touched |-> FALSE, content |-> <<>>]

(***************************************************************************)
(* main()                                                                  *)
(***************************************************************************)
MainStart ==
    /\ pc = "load"
    /\ shader_objects = EmptyDict
    /\ program_objects = <<>>
    /\ subs = <<>>

IdleMain ==
    /\ files = [f \in FileNames |-> <<>>]
    /\ pc = "idle"
    /\ shader_objects = EmptyDict
    /\ program_objects = <<>>
    /\ subs = <<>>
    /\ header_file = NoFile
    /\ implementation_file = NoFile
    /\ observed = <<>>

IdleShader == text = <<>> /\ shader = <<>>

IdleProgram == vertex = <<>> /\ fragment = <<>> /\ program = <<>> /\ ctor = <<>>

\* The output file is opened before the stage files are read.
LoadShadersOpeningFirst ==
    /\ pc = "load"
    /\ header_file' = [touched |-> TRUE, content |-> <<"">>]
    /\ IF \E n \in DOMAIN shaders : files[shaders[n]] = <<>>
       THEN /\ pc' = "raised"
            /\ UNCHANGED shader_objects
       ELSE /\ shader_objects' = [n \in DOMAIN shaders |-> Shader(n, files[shaders[n]][1])]
            /\ pc' = "programs"
    /\ UNCHANGED <<files, program_objects, subs, implementation_file, observed>>
    /\ UNCHANGED <<shaderVars, programVars>>

\* The loop that fills shader_objects: file() raises IOError at the first
\* stage file that cannot be read, and main() ends there.
LoadShaders ==
    /\ pc = "load"
    /\ IF \E n \in DOMAIN shaders : files[shaders[n]] = <<>>
       THEN /\ pc' = "raised"
            /\ UNCHANGED shader_objects
       ELSE /\ shader_objects' = [n \in DOMAIN shaders |-> Shader(n, files[shaders[n]][1])]
            /\ pc' = "programs"
    /\ UNCHANGED <<files, program_objects, subs, header_file, implementation_file,
                   observed>>
    /\ UNCHANGED <<shaderVars, programVars>>

\* One round of the loop that fills program_objects.
MakeProgram ==
    /\ pc = "programs"
    /\ LET entry == programs[Len(program_objects) + 1]
           made  == Program(entry[1], shader_objects[entry[2]], shader_objects[entry[3]])
       IN  IF made.raised # ""
           THEN /\ pc' = "raised"
                /\ UNCHANGED program_objects
           ELSE /\ program_objects' = Append(program_objects, made)
                /\ pc' = IF Len(program_objects) + 1 = Len(programs)
                         THEN "render" ELSE "programs"
    /\ UNCHANGED <<files, shader_objects, subs, header_file, implementation_file,
                   observed>>
    /\ UNCHANGED <<shaderVars, programVars>>

\* subs is filled; shader_objects.itervalues() yields the shaders in an
\* order the language leaves open.
Render ==
    /\ pc = "render"
    /\ LET headers         == MainHeaders(program_objects)
           implementations == MainImplementations(program_objects)
       IN  \E order \in ShaderOrders :
               subs' = <<[Headers         |-> headers,
                          Implementations |-> implementations,
                          Sources         |-> MainSources(shader_objects,
                                                          program_objects, order)]>>
    /\ pc' = "write"
    /\ UNCHANGED <<files, shader_objects, program_objects, header_file,
                   implementation_file, observed>>
    /\ UNCHANGED <<shaderVars, programVars>>

\* shaders.h is opened for writing, written and closed, and then
\* shaders.cc is.
WriteDocuments ==
    /\ pc = "write"
    /\ header_file' = [touched |-> TRUE, content |-> HeaderDocument(subs[1])]
    /\ implementation_file' =
           [touched |-> TRUE, content |-> ImplementationDocument(subs[1])]
    /\ pc' = "done"
    /\ UNCHANGED <<files, shader_objects, program_objects, subs, observed>>
    /\ UNCHANGED <<shaderVars, programVars>>

\* The tool is run again over the same files, the documents of the first
\* run having been kept aside.
RunAgain ==
    /\ pc = "done"
    /\ observed = <<>>
    /\ observed' = <<[header |-> header_file.content,
                      implementation |-> implementation_file.content]>>
    /\ pc' = "load"
    /\ shader_objects' = EmptyDict
    /\ program_objects' = <<>>
    /\ subs' = <<>>
    /\ header_file' = [header_file EXCEPT !.touched = FALSE]
    /\ implementation_file' = [implementation_file EXCEPT !.touched = FALSE]
    /\ UNCHANGED files
    /\ UNCHANGED <<shaderVars, programVars>>

Init ==
    /\ files \in FileSystems
    /\ MainStart
    /\ header_file = NoFile
    /\ implementation_file = NoFile
    /\ observed = <<>>
    /\ IdleShader
    /\ IdleProgram

Next ==
    \/ LoadShaders
    \/ MakeProgram
    \/ Render
    \/ WriteDocuments

Spec == Init /\ [][Next]_vars

\* Two runs over one set of readable stage files.
InitTwoRuns ==
    /\ files \in {fs \in FileSystems :
                     \A f \in FileNames :
                         fs[f] = <<DeclarationText(<<<<kwUniform, Chars_mvp>>>>)>>
                         \/ fs[f] = <<<<>>>>}
    /\ MainStart
    /\ header_file = NoFile
    /\ implementation_file = NoFile
    /\ observed = <<>>
    /\ IdleShader
    /\ IdleProgram

NextTwoRuns == Next \/ RunAgain

SpecTwoRuns == InitTwoRuns /\ [][NextTwoRuns]_vars

(***************************************************************************)
(* Shader(name, filename) on its own, over the texts a file may hold.      *)
(***************************************************************************)
ShaderInit ==
    /\ shader = <<>>
    /\ shader' = <<Shader("Stage", text)>>
    /\ UNCHANGED <<text, mainVars, programVars>>

InitShader ==
    /\ text \in StageTexts
    /\ shader = <<>>
    /\ IdleMain
    /\ IdleProgram

NextShader == ShaderInit

SpecShader == InitShader /\ [][NextShader]_vars

(***************************************************************************)
(* Program(name, vertex, fragment) on its own, and the constructor it      *)
(* emits.                                                                  *)
(***************************************************************************)
ProgramInit ==
    /\ program = <<>>
    /\ program' = <<Program("Prog", vertex[1], fragment[1])>>
    /\ UNCHANGED <<vertex, fragment, ctor, mainVars, shaderVars>>

\* The emitted constructor runs; glGetUniformLocation and
\* glGetAttribLocation answer as the GL implementation chooses, -1 for a
\* name it does not know.
ConstructorRun ==
    /\ program # <<>>
    /\ program[1].raised = ""
    /\ ctor = <<>>
    /\ \E loc \in [DOMAIN program[1].slots -> -1..MaxLoc] :
           ctor' = <<RunConstructor(program[1].slots, loc)>>
    /\ UNCHANGED <<vertex, fragment, program, mainVars, shaderVars>>

InitProgram ==
    /\ \E decls \in DeclarationLists :
           vertex = <<Shader("Vertex", DeclarationText(decls))>>
    /\ \E decls \in DeclarationLists :
           fragment = <<Shader("Fragment", DeclarationText(decls))>>
    /\ program = <<>>
    /\ ctor = <<>>
    /\ IdleMain
    /\ IdleShader

NextProgram == ProgramInit \/ ConstructorRun

SpecProgram == InitProgram /\ [][NextProgram]_vars

(***************************************************************************)
(* Properties of Shader._Parse (checked under SpecShader).                 *)
(***************************************************************************)
\* '\n'.join(lines) for inspected strings.
RECURSIVE JoinNewline(_)
JoinNewline(lines) ==
    IF lines = <<>> THEN <<>>
    ELSE IF Len(lines) = 1 THEN lines[1]
    ELSE lines[1] \o <<"\n">> \o JoinNewline(Tail(lines))

EndsWithNewline(t) == t # <<>> /\ t[Len(t)] = "\n"

\* C6, as stated: for every stage text, joining the lines that _Parse
\* stored in source with newlines gives back the text exactly.
C6_RoundTripExact ==
    shader # <<>> => JoinNewline(shader[1].source) = text

\* C6, amended: joining the stored lines with newlines gives back the text
\* without its final newline, when it ends in one, and the text itself
\* otherwise; so the lines are stored in order and unmodified apart from
\* their terminator.
C6_RoundTripUpToFinalNewline ==
    shader # <<>> =>
        JoinNewline(shader[1].source) =
            (IF EndsWithNewline(text) THEN SubSeq(text, 1, Len(text) - 1) ELSE text)

C6_Witness ==
    /\ shader # <<>>
    /\ EndsWithNewline(text)
    /\ Len(shader[1].source) >= 2
    /\ \E i \in DOMAIN shader[1].source : shader[1].source[i] # <<>>

\* The binding a line declares in the claim's reading: the first token is
\* the keyword, at least a type token follows, and the last token before
\* the first ';' is the name.
DeclaredBinding(line) ==
    IF \E i \in DOMAIN line : line[i] = ";"
    THEN LET toks == Tokens(Split(line, ";")[1])
         IN  IF Len(toks) >= 3 /\ toks[1] \in {kwUniform, kwAttribute}
             THEN <<[type |-> Str(toks[1]), name |-> toks[Len(toks)]]>>
             ELSE <<>>
    ELSE <<>>

DeclaredBindings(t) ==
    LET lines == Split(t, "\n")
    IN  Concat([i \in DOMAIN lines |-> DeclaredBinding(lines[i])])

\* C7, as stated: _Parse records exactly one binding for each declaration
\* line, with the line's keyword and the line's declared identifier, in
\* file order, and none for any other line; what follows the first ';' of
\* a line changes neither.
C7_OneBindingPerDeclaration ==
    shader # <<>> => shader[1].slots = DeclaredBindings(text)

(***************************************************************************)
(* Properties of Program (checked under SpecProgram).                      *)
(***************************************************************************)
\* vertex-bindings ++ fragment-bindings
AllBindings == vertex[1].slots \o fragment[1].slots

BindingNames == {AllBindings[i].name : i \in DOMAIN AllBindings}

Constructed == program # <<>> /\ program[1].raised = ""

\* C1, as stated: when no name is given two different kinds, _MakeSlots
\* succeeds and the merged mapping has one entry for each distinct name, a
\* name declared with the same kind in both stages being absorbed.
C1_SameKindAbsorbed ==
    (/\ program # <<>>
     /\ \A i, j \in DOMAIN AllBindings :
            AllBindings[i].name = AllBindings[j].name
                => AllBindings[i].type = AllBindings[j].type)
        => /\ program[1].raised = ""
           /\ Cardinality(DOMAIN program[1].slots) = Cardinality(BindingNames)

\* C1, amended: when no name occurs twice in vertex-bindings ++
\* fragment-bindings, _MakeSlots succeeds and the merged mapping has exactly
\* one entry for each name, with the kind it was declared with; when a name
\* occurs twice, with the same kind or not, the assertion fails and no
\* Program is made.
C1_DistinctNamesMerged ==
    program # <<>> =>
        IF \A i, j \in DOMAIN AllBindings :
               i # j => AllBindings[i].name # AllBindings[j].name
        THEN /\ program[1].raised = ""
             /\ DOMAIN program[1].slots = BindingNames
             /\ \A i \in DOMAIN AllBindings :
                    program[1].slots[AllBindings[i].name] = AllBindings[i].type
        ELSE program[1].raised = "AssertionError"

C1_Witness ==
    /\ program # <<>>
    /\ program[1].raised = "AssertionError"
    /\ \E i \in DOMAIN vertex[1].slots, j \in DOMAIN fragment[1].slots :
           vertex[1].slots[i] = fragment[1].slots[j]
    /\ \A i, j \in DOMAIN AllBindings :
           AllBindings[i].name = AllBindings[j].name
               => AllBindings[i].type = AllBindings[j].type

KindConflict ==
    \E i \in DOMAIN vertex[1].slots, j \in DOMAIN fragment[1].slots :
        /\ vertex[1].slots[i].name = fragment[1].slots[j].name
        /\ vertex[1].slots[i].type # fragment[1].slots[j].type

\* C2: when a name is a uniform in one stage of a program and an attribute
\* in the other, constructing the Program fails in the merge and leaves no
\* Program object, so no substitutions from which a declaration or a
\* definition fragment could be rendered.
C2_KindConflictFails ==
    (program # <<>> /\ KindConflict)
        => /\ program[1].raised = "AssertionError"
           /\ DOMAIN program[1] = {"raised"}

C2_Witness ==
    /\ program # <<>>
    /\ KindConflict
    /\ program[1].raised = "AssertionError"
    /\ vertex[1].slots[1].type = "uniform"

\* Whether bit b of the non-negative integer m is set.
BitSet(m, b) == (m \div (2 ^ b)) % 2 = 1

\* The names of S in strictly increasing order.
IncreasingOrder(S) ==
    CHOOSE s \in IterationOrders(S) :
        \A i, j \in DOMAIN s : i < j => StrLess(s[i], s[j])

\* C4, as stated (for a call that has an argument): bit i of the registered
\* mask is set exactly when the binding at index i of the name-sorted list
\* of all bindings is an attribute.
C4_BitIsSortedPosition ==
    (/\ Constructed
     /\ ctor # <<>>
     /\ ctor[1].state = "constructed"
     /\ ctor[1].maskArg # <<>>)
        => LET order == IncreasingOrder(DOMAIN program[1].slots)
           IN  \A b \in 0..(MaxLoc + Len(order)) :
                   BitSet(ctor[1].maskArg[1], b)
                       <=> (b + 1 \in DOMAIN order
                            /\ program[1].slots[order[b + 1]] = "attribute")

\* C4, amended: the emitted call has an argument exactly when the program
\* has an attribute-kind binding, and then bit b of the registered mask is
\* set exactly when b is the location that glGetAttribLocation returned for
\* some attribute-kind binding; the bit index is the binding's run-time
\* location, not its position in the sorted list.
C4_BitIsAttribLocation ==
    (/\ Constructed
     /\ ctor # <<>>
     /\ ctor[1].state = "constructed")
        => LET slots   == program[1].slots
               attribs == {n \in DOMAIN slots : slots[n] = "attribute"}
           IN  /\ (ctor[1].maskArg # <<>>) <=> (attribs # {})
               /\ ctor[1].maskArg # <<>> =>
                      \A b \in 0..(MaxLoc + 1) :
                          BitSet(ctor[1].maskArg[1], b)
                              <=> \E n \in attribs : ctor[1].loc[n] = b

C4_Witness ==
    /\ Constructed
    /\ ctor # <<>>
    /\ ctor[1].state = "constructed"
    /\ LET order == IncreasingOrder(DOMAIN program[1].slots)
       IN  /\ Len(order) >= 2
           /\ \E i \in DOMAIN order :
                  /\ program[1].slots[order[i]] = "attribute"
                  /\ ctor[1].loc[order[i]] # i - 1
           /\ \E i \in DOMAIN order : program[1].slots[order[i]] = "uniform"

\* The four per-binding sequences as they are rendered for the names in the
\* given order, slots giving each name's kind.
RenderedInOrder(order, slots) ==
    LET attribs == SelectSeq(order, LAMBDA n : slots[n] = "attribute")
        n       == Len(attribs)
    IN  [Slots      |-> JoinLines([i \in DOMAIN order |->
                            "  GLint " \o Str(order[i]) \o "_;"]),
         Accessors  |-> JoinLines([i \in DOMAIN order |->
                            "  GLint " \o Str(CamelCase(order[i]))
                            \o "Location() const { return " \o Str(order[i]) \o "_; }"]),
         FetchSlots |-> JoinLines(Concat([i \in DOMAIN order |->
                            <<"  " \o Str(order[i]) \o "_ = glGet"
                              \o (IF slots[order[i]] = "uniform" THEN "Uniform" ELSE "Attrib")
                              \o "Location(program(), \"" \o Str(order[i]) \o "\");",
                              "  CHECK(" \o Str(order[i]) \o "_ >= 0);">>])),
         UsedVertexAttribs |->
             IF n = 0 THEN <<"  SetUsedVertexAttribs();">>
             ELSE IF n = 1 THEN <<"  SetUsedVertexAttribs(1 << " \o Str(attribs[1]) \o "_);">>
             ELSE [i \in 1..n |->
                     (IF i = 1 THEN "  SetUsedVertexAttribs("
                      ELSE "                       ")
                     \o "(1 << " \o Str(attribs[i]) \o "_)"
                     \o (IF i = n THEN ");" ELSE " |")]]

\* The ways to declare the bindings of all in another order and to split
\* them between the two stages.
Rearrangements(all) ==
    {<<[i \in 1..k |-> all[p[i]]], [i \in 1..(Len(all) - k) |-> all[p[k + i]]]>> :
        p \in IterationOrders(DOMAIN all), k \in 0..Len(all)}

StageDeclaring(name, bindings) ==
    Shader(name, DeclarationText(
        [i \in DOMAIN bindings |->
            <<IF bindings[i].type = "uniform" THEN kwUniform ELSE kwAttribute,
              bindings[i].name>>]))

\* C5: the storage slots, the accessors, the location lookups and the
\* attribute terms of a program each list the bindings in strictly
\* increasing order of name, and the rendered output is the same however
\* the declarations are ordered within and across the two stages.
\* (Evaluated where the Program has just been made: running the emitted
\* constructor changes nothing of it.)
C5_RenderedInNameOrder ==
    (Constructed /\ ctor = <<>>) =>
        LET got  == program[1].subs
            want == RenderedInOrder(IncreasingOrder(DOMAIN program[1].slots),
                                    program[1].slots)
        IN  /\ got.Slots = want.Slots
            /\ got.Accessors = want.Accessors
            /\ got.FetchSlots = want.FetchSlots
            /\ got.UsedVertexAttribs = want.UsedVertexAttribs
            /\ \A vf \in Rearrangements(AllBindings) :
                   LET other == Program("Prog", StageDeclaring("Vertex", vf[1]),
                                        StageDeclaring("Fragment", vf[2]))
                   IN  other.raised = "" /\ other.subs = got

C5_Witness ==
    /\ Constructed
    /\ Len(AllBindings) >= 3
    /\ vertex[1].slots # <<>>
    /\ fragment[1].slots # <<>>
    /\ \E i, j \in DOMAIN AllBindings :
           i < j /\ StrLess(AllBindings[j].name, AllBindings[i].name)
    /\ Cardinality({AllBindings[i].type : i \in DOMAIN AllBindings}) = 2
    /\ Len(program[1].subs.UsedVertexAttribs) = 2

\* C8, as stated: a program whose two stages declare nothing is generated,
\* its class has no accessors and no storage slots, its constructor looks
\* up no location, and the emitted call registers a mask of zero, passed as
\* an explicit argument.
C8_EmptyProgramRegistersZero ==
    (/\ program # <<>>
     /\ vertex[1].slots = <<>>
     /\ fragment[1].slots = <<>>
     /\ ctor # <<>>)
        => /\ program[1].raised = ""
           /\ program[1].subs.Accessors = <<"">>
           /\ program[1].subs.Slots = <<"">>
           /\ program[1].subs.FetchSlots = <<"">>
           /\ ctor[1].state = "constructed"
           /\ ctor[1].maskArg = <<0>>

(***************************************************************************)
(* Properties of main() (checked under Spec and SpecTwoRuns).              *)
(***************************************************************************)
\* C3: when main() ends in the failure of a stage file to be read or of a
\* program to be merged, neither output file has been opened or modified;
\* an output file is first written only once every Shader and every Program
\* of the tables has been made.
C3_NoOutputOnFailure ==
    /\ pc = "raised" =>
           /\ ~header_file.touched /\ header_file.content = <<>>
           /\ ~implementation_file.touched /\ implementation_file.content = <<>>
    /\ (header_file.touched \/ implementation_file.touched) =>
           /\ DOMAIN shader_objects = DOMAIN shaders
           /\ Len(program_objects) = Len(programs)

C3_Witness ==
    /\ pc = "raised"
    /\ DOMAIN shader_objects = DOMAIN shaders
    /\ Len(program_objects) >= 1
    /\ ~header_file.touched
    /\ ~implementation_file.touched

\* The blocks of lines that empty lines separate.
RECURSIVE Blocks(_)
Blocks(lines) ==
    IF \E i \in DOMAIN lines : lines[i] = ""
    THEN LET i == CHOOSE k \in DOMAIN lines :
                     lines[k] = "" /\ \A j \in 1..(k - 1) : lines[j] # ""
         IN  <<SubSeq(lines, 1, i - 1)>> \o Blocks(SubSeq(lines, i + 1, Len(lines)))
    ELSE <<lines>>

\* The line that opens the constant of the named source, with or without
\* the statement terminator.
Opens(line, sourceName) ==
    \/ line = "static const char* " \o sourceName \o " ="
    \/ line = "static const char* " \o sourceName \o " =;"

\* The lines of shaders.cc between "namespace window_manager {" and the
\* first constructor.
EmbeddedSources ==
    LET doc   == implementation_file.content
        first == CHOOSE k \in DOMAIN doc :
                     /\ doc[k] = program_objects[1].name \o "::"
                                 \o program_objects[1].name \o "()"
                     /\ \A j \in 1..(k - 1) : doc[j] # doc[k]
    IN  SubSeq(doc, 13, first - 2)

C10_RunsAgree ==
    (pc = "done" /\ observed # <<>>) =>
        /\ header_file.content = observed[1].header
        /\ implementation_file.content = observed[1].implementation

=============================================================================
